---- MODULE Spec2Model ----
(***************************************************************************)
(* TrustFrame: VideoComparator (src/src/trustframe/comparator.py).         *)
(*                                                                         *)
(* A hash (token) is a Python str, modelled as a sequence of one-character *)
(* strings, so that string equality, len() and int(.., 16) are separate    *)
(* notions.  A Python Optional is modelled as a sequence of length <= 1:   *)
(* None is << >>, a present value v is << v >>.                            *)
(*                                                                         *)
(* Spec         one call of align_sequences followed by                    *)
(*              analyze_differences, the backtracking loop taken one       *)
(*              iteration at a time.                                       *)
(* SpecHamming  one call of calculate_hamming_distance.                    *)
(* SpecScore    Spec followed by the similarity scoring loop of analyze.   *)
(* SpecFrames   the frame sampling of analyze and extract_frames.          *)
(* SpecSwap     align_sequences called a second time, arguments swapped.   *)
(***************************************************************************)
EXTENDS Integers, Sequences, FiniteSets, TLC

VARIABLES
    pc,             \* position in the call sequence
    ref_hashes,     \* argument of align_sequences: reference hash records
    ev_hashes,      \* argument of align_sequences: evidence hash records
    dp,             \* the DP table of align_sequences
    i, j,           \* the backtracking indices of align_sequences
    alignment,      \* the list built by the backtracking loop, then returned
    edit_distance,  \* second component of align_sequences' result (-1: no result yet)
    stats,          \* result of analyze_differences (<< >>: no result yet)
    hash1, hash2,   \* arguments of calculate_hamming_distance
    hamming_result, \* result of calculate_hamming_distance (<< >> is None)
    similarity_scores,          \* analyze: score of every alignment operation
    substitution_similarities,  \* analyze: scores of the scored substitutions
    max_frames,     \* analyze: the max_frames option (<< >> is None)
    total_frames,   \* extract_frames: frame count the video reports
    target_frames,  \* analyze / extract_frames: frames asked for (<< >> is None)
    frames,         \* extract_frames: frame numbers of the extracted frames
    call,           \* which of two successive align_sequences calls is running
    first_distance, \* edit distance the first of the two calls returned
    first_alignment \* alignment the first of the two calls returned

scoreVars == << similarity_scores, substitution_similarities >>
frameVars == << max_frames, total_frames, target_frames, frames >>
swapVars == << call, first_distance, first_alignment >>

vars == << pc, ref_hashes, ev_hashes, dp, i, j, alignment, edit_distance,
           stats, hash1, hash2, hamming_result, scoreVars, frameVars, swapVars >>

(***************************************************************************)
(* Bounds of the model.                                                    *)
(***************************************************************************)
MaxLen == 3         \* longest hash sequence given to align_sequences
MaxHashLen == 2     \* longest str given to calculate_hamming_distance
MaxTotalFrames == 4 \* largest frame count a video reports

\* The hashes the input sequences are drawn from.
Tokens == { << "0", "0" >>, << "0", "f" >>, << "f" >> }

\* The frame sampling steps of the input sequences (1: every frame).
Steps == { 1, 2 }

None == << >>
Some(v) == << v >>

\* The parts of the state a specification does not use stay at these values.
ScoreIdle == similarity_scores = << >> /\ substitution_similarities = << >>
FramesIdle ==
    max_frames = None /\ total_frames = 0 /\ target_frames = None /\ frames = << >>
SwapIdle == call = 1 /\ first_distance = -1 /\ first_alignment = << >>

SeqsUpTo(S, k) == UNION { [1..l -> S] : l \in 0..k }

Reverse(s) == [k \in 1..Len(s) |-> s[Len(s) + 1 - k]]

Min2(x, y) == IF x <= y THEN x ELSE y

Min3(x, y, z) ==
    IF x <= y /\ x <= z THEN x ELSE IF y <= z THEN y ELSE z

(***************************************************************************)
(* align_sequences                                                         *)
(***************************************************************************)
\* The hash records calculate_frame_hashes produces for frames sampled every
\* `step` frames: frame_number is the 1-based position in the original video.
FrameHashes(hashes, step) ==
    [k \in 1..Len(hashes) |->
        [frame_number |-> (k - 1) * step + 1, hash |-> hashes[k]]]

ref_seq == [k \in 1..Len(ref_hashes) |-> ref_hashes[k].hash]
ev_seq == [k \in 1..Len(ev_hashes) |-> ev_hashes[k].hash]

m == Len(ref_seq)
n == Len(ev_seq)

\* Mutant of InitTable: the first column is left at 0.
InitTableNoFirstColumn(rows, cols) ==
    [r \in 0..rows |-> [c \in 0..cols |-> IF r = 0 THEN c ELSE 0]]

\* dp = [[0] * (n + 1) for _ in range(m + 1)], then first column and row.
InitTable(rows, cols) ==
    [r \in 0..rows |-> [c \in 0..cols |->
        IF c = 0 THEN r ELSE IF r = 0 THEN c ELSE 0]]

\* Mutant of DpCell: the insertion term is left out of the minimum.
DpCellNoInsertion(t, r, c) ==
    IF ref_seq[r] = ev_seq[c]
    THEN t[r - 1][c - 1]
    ELSE 1 + Min3(t[r - 1][c], t[r - 1][c], t[r - 1][c - 1])

\* Mutant of DpCell: equal hashes are charged like different ones.
DpCellAlwaysCosts(t, r, c) ==
    1 + Min3(t[r - 1][c], t[r][c - 1], t[r - 1][c - 1])

\* Mutant of DpCell: the substitution term is left out of the minimum.
DpCellNoSubstitution(t, r, c) ==
    IF ref_seq[r] = ev_seq[c]
    THEN t[r - 1][c - 1]
    ELSE 1 + Min3(t[r - 1][c], t[r][c - 1], t[r][c - 1])

\* Mutant of DpCell: the deletion term is left out of the minimum.
DpCellNoDeletion(t, r, c) ==
    IF ref_seq[r] = ev_seq[c]
    THEN t[r - 1][c - 1]
    ELSE 1 + Min3(t[r][c - 1], t[r][c - 1], t[r - 1][c - 1])

\* The body of the two nested loops; Python's ref_seq[r - 1] is ref_seq[r] here.
DpCell(t, r, c) ==
    IF ref_seq[r] = ev_seq[c]
    THEN t[r - 1][c - 1]
    ELSE 1 + Min3(t[r - 1][c], t[r][c - 1], t[r - 1][c - 1])

RECURSIVE FillRow(_, _, _)
FillRow(t, r, c) ==
    IF c > n THEN t
    ELSE FillRow([t EXCEPT ![r][c] = DpCell(t, r, c)], r, c + 1)

RECURSIVE FillTable(_, _)
FillTable(t, r) ==
    IF r > m THEN t
    ELSE FillTable(FillRow(t, r, 1), r + 1)

\* Mutant of Branch: a deletion is taken only while evidence is left.
BranchDeletionNeedsEvidence(t, r, c) ==
    IF r > 0 /\ c > 0 /\ ref_seq[r] = ev_seq[c] THEN "match"
    ELSE IF r > 0 /\ c > 0 /\ t[r][c] = t[r - 1][c - 1] + 1 THEN "substitution"
    ELSE IF r > 0 /\ c > 0 /\ t[r][c] = t[r - 1][c] + 1 THEN "deletion"
    ELSE IF c > 0 /\ t[r][c] = t[r][c - 1] + 1 THEN "insertion"
    ELSE "none"

\* Mutant of Branch: the deletion test comes before the substitution test.
BranchDeletionFirst(t, r, c) ==
    IF r > 0 /\ c > 0 /\ ref_seq[r] = ev_seq[c] THEN "match"
    ELSE IF r > 0 /\ t[r][c] = t[r - 1][c] + 1 THEN "deletion"
    ELSE IF r > 0 /\ c > 0 /\ t[r][c] = t[r - 1][c - 1] + 1 THEN "substitution"
    ELSE IF c > 0 /\ t[r][c] = t[r][c - 1] + 1 THEN "insertion"
    ELSE "none"

\* Mutant of Branch: a substitution is taken without comparing table cells.
BranchUncheckedSubstitution(t, r, c) ==
    IF r > 0 /\ c > 0 /\ ref_seq[r] = ev_seq[c] THEN "match"
    ELSE IF r > 0 /\ c > 0 THEN "substitution"
    ELSE IF r > 0 /\ t[r][c] = t[r - 1][c] + 1 THEN "deletion"
    ELSE IF c > 0 /\ t[r][c] = t[r][c - 1] + 1 THEN "insertion"
    ELSE "none"

\* The branch the if/elif chain of the backtracking loop takes at (i, j);
\* "none" when no condition holds (the loop body then changes nothing).
Branch(t, r, c) ==
    IF r > 0 /\ c > 0 /\ ref_seq[r] = ev_seq[c] THEN "match"
    ELSE IF r > 0 /\ c > 0 /\ t[r][c] = t[r - 1][c - 1] + 1 THEN "substitution"
    ELSE IF r > 0 /\ t[r][c] = t[r - 1][c] + 1 THEN "deletion"
    ELSE IF c > 0 /\ t[r][c] = t[r][c - 1] + 1 THEN "insertion"
    ELSE "none"

\* Mutant of MatchOp: the evidence frame is read from the reference record.
MatchOpReferenceFrame(r, c) ==
    [type |-> "match",
     ref_frame |-> Some(ref_hashes[r].frame_number),
     ev_frame |-> Some(ref_hashes[r].frame_number),
     ref_hash |-> Some(ref_seq[r]),
     ev_hash |-> Some(ev_seq[c])]

MatchOp(r, c) ==
    [type |-> "match",
     ref_frame |-> Some(ref_hashes[r].frame_number),
     ev_frame |-> Some(ev_hashes[c].frame_number),
     ref_hash |-> Some(ref_seq[r]),
     ev_hash |-> Some(ev_seq[c])]

SubstitutionOp(r, c) ==
    [type |-> "substitution",
     ref_frame |-> Some(ref_hashes[r].frame_number),
     ev_frame |-> Some(ev_hashes[c].frame_number),
     ref_hash |-> Some(ref_seq[r]),
     ev_hash |-> Some(ev_seq[c])]

\* Mutant of DeletionOp: the position in the list instead of the frame number.
DeletionOpListPosition(r) ==
    [type |-> "deletion",
     ref_frame |-> Some(r),
     ev_frame |-> None,
     ref_hash |-> Some(ref_seq[r]),
     ev_hash |-> None]

DeletionOp(r) ==
    [type |-> "deletion",
     ref_frame |-> Some(ref_hashes[r].frame_number),
     ev_frame |-> None,
     ref_hash |-> Some(ref_seq[r]),
     ev_hash |-> None]

\* Mutant of InsertionOp: the reference hash is filled in from the evidence.
InsertionOpWithReferenceHash(c) ==
    [type |-> "insertion",
     ref_frame |-> None,
     ev_frame |-> Some(ev_hashes[c].frame_number),
     ref_hash |-> Some(ev_seq[c]),
     ev_hash |-> Some(ev_seq[c])]

InsertionOp(c) ==
    [type |-> "insertion",
     ref_frame |-> None,
     ev_frame |-> Some(ev_hashes[c].frame_number),
     ref_hash |-> None,
     ev_hash |-> Some(ev_seq[c])]

(***************************************************************************)
(* analyze_differences                                                     *)
(***************************************************************************)
\* Mutant of plural_map: insertions are counted as deletions.
plural_map_insertion_as_deletion ==
    [match |-> "matches", substitution |-> "substitutions",
     insertion |-> "deletions", deletion |-> "deletions"]

plural_map ==
    [match |-> "matches", substitution |-> "substitutions",
     insertion |-> "insertions", deletion |-> "deletions"]

InitStats(al) ==
    [matches |-> 0, substitutions |-> 0, insertions |-> 0, deletions |-> 0,
     total_operations |-> Len(al)]

RECURSIVE CountOps(_, _, _)
CountOps(st, al, k) ==
    IF k > Len(al) THEN st
    ELSE CountOps([st EXCEPT ![plural_map[al[k].type]] = @ + 1], al, k + 1)

(***************************************************************************)
(* calculate_hamming_distance                                              *)
(***************************************************************************)
\* The characters the arguments of calculate_hamming_distance are drawn from.
HashChars == { "0", "1", "f", "F", "g", "-", " " }

Whitespace == { " " }

HexDigitValue ==
    ("0" :> 0) @@ ("1" :> 1) @@ ("2" :> 2) @@ ("3" :> 3) @@ ("4" :> 4) @@
    ("5" :> 5) @@ ("6" :> 6) @@ ("7" :> 7) @@ ("8" :> 8) @@ ("9" :> 9) @@
    ("a" :> 10) @@ ("b" :> 11) @@ ("c" :> 12) @@ ("d" :> 13) @@
    ("e" :> 14) @@ ("f" :> 15) @@
    ("A" :> 10) @@ ("B" :> 11) @@ ("C" :> 12) @@ ("D" :> 13) @@
    ("E" :> 14) @@ ("F" :> 15)

RECURSIVE LStrip(_)
LStrip(s) ==
    IF s # << >> /\ Head(s) \in Whitespace THEN LStrip(Tail(s)) ELSE s

Strip(s) == Reverse(LStrip(Reverse(LStrip(s))))

DropSign(s) ==
    IF s # << >> /\ Head(s) \in { "+", "-" } THEN Tail(s) ELSE s

SignOf(s) == IF s # << >> /\ Head(s) = "-" THEN -1 ELSE 1

\* Base 16 accepts a 0x / 0X prefix, and one underscore right after it.
DropPrefix(s) ==
    IF Len(s) >= 2 /\ s[1] = "0" /\ s[2] \in { "x", "X" }
    THEN LET t == SubSeq(s, 3, Len(s))
         IN  IF t # << >> /\ Head(t) = "_" THEN Tail(t) ELSE t
    ELSE s

\* At least one digit; an underscore only between two digits.
ValidDigits(d) ==
    /\ d # << >>
    /\ \A k \in 1..Len(d) :
        \/ d[k] \in DOMAIN HexDigitValue
        \/ /\ d[k] = "_"
           /\ 1 < k
           /\ k < Len(d)
           /\ d[k - 1] \in DOMAIN HexDigitValue
           /\ d[k + 1] \in DOMAIN HexDigitValue

RECURSIVE DigitsValue(_, _)
DigitsValue(d, acc) ==
    IF d = << >> THEN acc
    ELSE IF Head(d) = "_" THEN DigitsValue(Tail(d), acc)
    ELSE DigitsValue(Tail(d), 16 * acc + HexDigitValue[Head(d)])

\* int(s, 16): Some(value), or None when Python raises ValueError.
ParseHex(s) ==
    LET body == DropPrefix(DropSign(Strip(s)))
    IN  IF ValidDigits(body)
        THEN Some(SignOf(Strip(s)) * DigitsValue(body, 0))
        ELSE None

RECURSIVE XorNat(_, _)
XorNat(x, y) ==
    IF x = 0 THEN y
    ELSE IF y = 0 THEN x
    ELSE (((x % 2) + (y % 2)) % 2) + 2 * XorNat(x \div 2, y \div 2)

\* Mutant of Xor: the complement is forgotten when only the right operand is
\* negative.
XorRightSignLost(x, y) ==
    IF x >= 0 /\ y >= 0 THEN XorNat(x, y)
    ELSE IF x < 0 /\ y < 0 THEN XorNat(-x - 1, -y - 1)
    ELSE IF x < 0 THEN -XorNat(-x - 1, y) - 1
    ELSE XorNat(x, -y - 1)

\* Python's ^ on unbounded two's complement integers: a negative x is ~(-x - 1).
Xor(x, y) ==
    IF x >= 0 /\ y >= 0 THEN XorNat(x, y)
    ELSE IF x < 0 /\ y < 0 THEN XorNat(-x - 1, -y - 1)
    ELSE IF x < 0 THEN -XorNat(-x - 1, y) - 1
    ELSE -XorNat(x, -y - 1) - 1

RECURSIVE PopCount(_)
PopCount(x) == IF x = 0 THEN 0 ELSE (x % 2) + PopCount(x \div 2)

\* bin(x).count('1'): bin of a negative integer is '-0b' and the digits of -x.
BinCountOnes(x) == PopCount(IF x < 0 THEN -x ELSE x)

\* The float ((max_bits - d) / max_bits) * 100 is kept as the exact fraction
\* num / den; rounding of the float is not modelled.
Similarity(max_bits, d) == [num |-> (max_bits - d) * 100, den |-> max_bits]

\* Mutant of calculate_hamming_distance: the lengths are not compared.
calculate_hamming_distance_no_length_check(h1, h2) ==
    IF h1 = << >> \/ h2 = << >> THEN None
    ELSE LET int1 == ParseHex(h1)
             int2 == ParseHex(h2)
         IN  IF int1 = None \/ int2 = None THEN None
             ELSE LET xor_result == Xor(int1[1], int2[1])
                      hamming_distance == BinCountOnes(xor_result)
                      max_bits == Len(h1) * 4
                  IN  Some([hamming_distance |-> hamming_distance,
                            max_bits |-> max_bits,
                            similarity_percentage |->
                                Similarity(max_bits, hamming_distance)])

calculate_hamming_distance(h1, h2) ==
    IF h1 = << >> \/ h2 = << >> THEN None
    ELSE IF Len(h1) # Len(h2) THEN None
    ELSE LET int1 == ParseHex(h1)
             int2 == ParseHex(h2)
         IN  IF int1 = None \/ int2 = None THEN None
             ELSE LET xor_result == Xor(int1[1], int2[1])
                      hamming_distance == BinCountOnes(xor_result)
                      max_bits == Len(h1) * 4
                  IN  Some([hamming_distance |-> hamming_distance,
                            max_bits |-> max_bits,
                            similarity_percentage |->
                                Similarity(max_bits, hamming_distance)])

(***************************************************************************)
(* analyze (cli.py): similarity scores of the alignment and their          *)
(* aggregates.  A float score is kept as the exact fraction num / den.     *)
(***************************************************************************)
Frac(x) == [num |-> x, den |-> 1]

FracLess(a, b) == a.num * b.den < b.num * a.den

FracAdd(a, b) == [num |-> a.num * b.den + b.num * a.den, den |-> a.den * b.den]

\* if hamming_result: a dict with keys is true, None is false.
Truthy(result) == result # None

\* The body of the loop that collects the scores (cli.py lines 250-262).
ScoreOp(acc, op) ==
    IF op.type = "match"
    THEN [acc EXCEPT !.scores = Append(@, Frac(100))]
    ELSE IF op.type \in { "insertion", "deletion" }
    THEN [acc EXCEPT !.scores = Append(@, Frac(0))]
    ELSE IF op.type = "substitution"
    THEN LET result == calculate_hamming_distance(op.ref_hash[1], op.ev_hash[1])
         IN  IF Truthy(result)
             THEN [scores |-> Append(acc.scores, result[1].similarity_percentage),
                   subs |-> Append(acc.subs, result[1].similarity_percentage)]
             ELSE [acc EXCEPT !.scores = Append(@, Frac(0))]
    ELSE acc

RECURSIVE CollectScores(_, _, _)
CollectScores(acc, al, k) ==
    IF k > Len(al) THEN acc
    ELSE CollectScores(ScoreOp(acc, al[k]), al, k + 1)

RECURSIVE SumScores(_)
SumScores(scores) ==
    IF scores = << >> THEN Frac(0)
    ELSE FracAdd(Head(scores), SumScores(Tail(scores)))

\* sum(scores) / len(scores), or 0.0 for no scores.
AvgScore(scores) ==
    IF scores # << >>
    THEN [num |-> SumScores(scores).num, den |-> SumScores(scores).den * Len(scores)]
    ELSE Frac(0)

MinScore(scores) ==
    IF scores # << >>
    THEN CHOOSE s \in { scores[k] : k \in 1..Len(scores) } :
            \A k \in 1..Len(scores) : ~FracLess(scores[k], s)
    ELSE Frac(0)

MaxScore(scores) ==
    IF scores # << >>
    THEN CHOOSE s \in { scores[k] : k \in 1..Len(scores) } :
            \A k \in 1..Len(scores) : ~FracLess(s, scores[k])
    ELSE Frac(0)

HighCount(scores) ==
    Cardinality({ k \in 1..Len(scores) : ~FracLess(scores[k], Frac(80)) })

MediumCount(scores) ==
    Cardinality({ k \in 1..Len(scores) :
        ~FracLess(scores[k], Frac(50)) /\ FracLess(scores[k], Frac(80)) })

LowCount(scores) ==
    Cardinality({ k \in 1..Len(scores) : FracLess(scores[k], Frac(50)) })

avg_similarity == AvgScore(similarity_scores)
min_similarity == MinScore(similarity_scores)
max_similarity == MaxScore(similarity_scores)
high_similarity == HighCount(similarity_scores)
medium_similarity == MediumCount(similarity_scores)
low_similarity == LowCount(similarity_scores)

(***************************************************************************)
(* The calls, as actions.                                                  *)
(***************************************************************************)
Init ==
    /\ \E rs \in SeqsUpTo(Tokens, MaxLen), es \in SeqsUpTo(Tokens, MaxLen),
          rstep \in Steps, estep \in Steps :
            /\ ref_hashes = FrameHashes(rs, rstep)
            /\ ev_hashes = FrameHashes(es, estep)
    /\ pc = "start"
    /\ dp = << >>
    /\ i = 0
    /\ j = 0
    /\ alignment = << >>
    /\ edit_distance = -1
    /\ stats = << >>
    /\ hash1 = << >>
    /\ hash2 = << >>
    /\ hamming_result = None
    /\ ScoreIdle
    /\ FramesIdle
    /\ SwapIdle

\* align_sequences up to the backtracking loop: the table is built and filled.
AlignFill ==
    /\ pc = "start"
    /\ dp' = FillTable(InitTable(m, n), 1)
    /\ alignment' = << >>
    /\ i' = m
    /\ j' = n
    /\ pc' = "backtrack"
    /\ UNCHANGED << ref_hashes, ev_hashes, edit_distance, stats,
                    hash1, hash2, hamming_result,
                    scoreVars, frameVars, swapVars >>

BacktrackMatch ==
    /\ pc = "backtrack"
    /\ i > 0 \/ j > 0
    /\ Branch(dp, i, j) = "match"
    /\ alignment' = Append(alignment, MatchOp(i, j))
    /\ i' = i - 1
    /\ j' = j - 1
    /\ UNCHANGED << pc, ref_hashes, ev_hashes, dp, edit_distance, stats,
                    hash1, hash2, hamming_result,
                    scoreVars, frameVars, swapVars >>

BacktrackSubstitution ==
    /\ pc = "backtrack"
    /\ i > 0 \/ j > 0
    /\ Branch(dp, i, j) = "substitution"
    /\ alignment' = Append(alignment, SubstitutionOp(i, j))
    /\ i' = i - 1
    /\ j' = j - 1
    /\ UNCHANGED << pc, ref_hashes, ev_hashes, dp, edit_distance, stats,
                    hash1, hash2, hamming_result,
                    scoreVars, frameVars, swapVars >>

BacktrackDeletion ==
    /\ pc = "backtrack"
    /\ i > 0 \/ j > 0
    /\ Branch(dp, i, j) = "deletion"
    /\ alignment' = Append(alignment, DeletionOp(i))
    /\ i' = i - 1
    /\ UNCHANGED << pc, j, ref_hashes, ev_hashes, dp, edit_distance, stats,
                    hash1, hash2, hamming_result,
                    scoreVars, frameVars, swapVars >>

BacktrackInsertion ==
    /\ pc = "backtrack"
    /\ i > 0 \/ j > 0
    /\ Branch(dp, i, j) = "insertion"
    /\ alignment' = Append(alignment, InsertionOp(j))
    /\ j' = j - 1
    /\ UNCHANGED << pc, i, ref_hashes, ev_hashes, dp, edit_distance, stats,
                    hash1, hash2, hamming_result,
                    scoreVars, frameVars, swapVars >>

\* The loop has ended: alignment.reverse(); return alignment, dp[m][n].
AlignReturn ==
    /\ pc = "backtrack"
    /\ ~(i > 0 \/ j > 0)
    /\ alignment' = Reverse(alignment)
    /\ edit_distance' = dp[m][n]
    /\ pc' = "aligned"
    /\ UNCHANGED << i, j, ref_hashes, ev_hashes, dp, stats,
                    hash1, hash2, hamming_result,
                    scoreVars, frameVars, swapVars >>

AnalyzeDifferences ==
    /\ pc = "aligned"
    /\ stats' = CountOps(InitStats(alignment), alignment, 1)
    /\ pc' = "analyzed"
    /\ UNCHANGED << i, j, ref_hashes, ev_hashes, dp, alignment, edit_distance,
                    hash1, hash2, hamming_result,
                    scoreVars, frameVars, swapVars >>

Next ==
    \/ AlignFill
    \/ BacktrackMatch
    \/ BacktrackSubstitution
    \/ BacktrackDeletion
    \/ BacktrackInsertion
    \/ AlignReturn
    \/ AnalyzeDifferences

Spec == Init /\ [][Next]_vars

(***************************************************************************)
(* The alignment calls followed by the scoring loop of analyze.            *)
(***************************************************************************)
ScoreSimilarities ==
    /\ pc = "analyzed"
    /\ LET acc == CollectScores([scores |-> << >>, subs |-> << >>], alignment, 1)
       IN  /\ similarity_scores' = acc.scores
           /\ substitution_similarities' = acc.subs
    /\ pc' = "scored"
    /\ UNCHANGED << ref_hashes, ev_hashes, dp, i, j, alignment, edit_distance,
                    stats, hash1, hash2, hamming_result, frameVars, swapVars >>

NextScore == Next \/ ScoreSimilarities

SpecScore == Init /\ [][NextScore]_vars

(***************************************************************************)
(* One call of calculate_hamming_distance on arbitrary strings.            *)
(***************************************************************************)
InitHamming ==
    /\ hash1 \in SeqsUpTo(HashChars, MaxHashLen)
    /\ hash2 \in SeqsUpTo(HashChars, MaxHashLen)
    /\ hamming_result = None
    /\ pc = "hamming_start"
    /\ ref_hashes = << >>
    /\ ev_hashes = << >>
    /\ dp = << >>
    /\ i = 0
    /\ j = 0
    /\ alignment = << >>
    /\ edit_distance = -1
    /\ stats = << >>
    /\ ScoreIdle
    /\ FramesIdle
    /\ SwapIdle

CalculateHammingDistance ==
    /\ pc = "hamming_start"
    /\ hamming_result' = calculate_hamming_distance(hash1, hash2)
    /\ pc' = "hamming_done"
    /\ UNCHANGED << ref_hashes, ev_hashes, dp, i, j, alignment, edit_distance,
                    stats, hash1, hash2, scoreVars, frameVars, swapVars >>

NextHamming == CalculateHammingDistance

SpecHamming == InitHamming /\ [][NextHamming]_vars

(***************************************************************************)
(* find_longest_common_subsequence.                                        *)
(***************************************************************************)
Max2(x, y) == IF x >= y THEN x ELSE y

LcsTable(rows, cols) == [r \in 0..rows |-> [c \in 0..cols |-> 0]]

\* Mutant of LcsCell: the smaller neighbour is kept instead of the larger.
LcsCellKeepsSmaller(t, seq1, seq2, r, c) ==
    IF seq1[r] = seq2[c]
    THEN t[r - 1][c - 1] + 1
    ELSE Min2(t[r - 1][c], t[r][c - 1])

\* The body of the two nested loops; Python's seq1[r - 1] is seq1[r] here.
LcsCell(t, seq1, seq2, r, c) ==
    IF seq1[r] = seq2[c]
    THEN t[r - 1][c - 1] + 1
    ELSE Max2(t[r - 1][c], t[r][c - 1])

RECURSIVE LcsFillRow(_, _, _, _, _)
LcsFillRow(t, seq1, seq2, r, c) ==
    IF c > Len(seq2) THEN t
    ELSE LcsFillRow([t EXCEPT ![r][c] = LcsCell(t, seq1, seq2, r, c)],
                    seq1, seq2, r, c + 1)

RECURSIVE LcsFillTable(_, _, _, _)
LcsFillTable(t, seq1, seq2, r) ==
    IF r > Len(seq1) THEN t
    ELSE LcsFillTable(LcsFillRow(t, seq1, seq2, r, 1), seq1, seq2, r + 1)

find_longest_common_subsequence(seq1, seq2) ==
    LcsFillTable(LcsTable(Len(seq1), Len(seq2)), seq1, seq2, 1)[Len(seq1)][Len(seq2)]

(***************************************************************************)
(* Two successive calls: align_sequences(A, B), then align_sequences(B, A).*)
(***************************************************************************)
\* The caller keeps the first result and calls again with the arguments
\* exchanged; the second call starts from fresh locals.
SwapArguments ==
    /\ pc = "analyzed"
    /\ call = 1
    /\ first_distance' = edit_distance
    /\ first_alignment' = alignment
    /\ ref_hashes' = ev_hashes
    /\ ev_hashes' = ref_hashes
    /\ dp' = << >>
    /\ i' = 0
    /\ j' = 0
    /\ alignment' = << >>
    /\ edit_distance' = -1
    /\ stats' = << >>
    /\ call' = 2
    /\ pc' = "start"
    /\ UNCHANGED << hash1, hash2, hamming_result, scoreVars, frameVars >>

NextSwap == Next \/ SwapArguments

SpecSwap == Init /\ [][NextSwap]_vars

(***************************************************************************)
(* Frame sampling: analyze (cli.py) decides target_frames from the         *)
(* max_frames option, extract_frames (perceptual.py) picks the frames of   *)
(* one video.  calculate_frame_hashes yields one hash per extracted frame. *)
(***************************************************************************)
\* The values of the max_frames option: not given, or any integer.
MaxFramesOptions ==
    { None } \cup { Some(k) : k \in (-1)..(MaxTotalFrames + 1) }

\* if max_frames: None and 0 are false.
MaxFramesGiven(opt) == opt # None /\ opt[1] # 0

TargetFrames(opt) == IF MaxFramesGiven(opt) THEN opt ELSE None

Range(k) == [x \in 1..k |-> x - 1]

\* frame_indices of extract_frames.  int(i * step) with step = total /
\* frames_to_extract is taken as the exact floor of i * total /
\* frames_to_extract.  target is never Some(0) here (TargetFrames).
FrameIndices(target, total) ==
    IF target = None THEN Range(total)
    ELSE LET frames_to_extract == Min2(target[1], total)
         IN  IF frames_to_extract = total THEN Range(total)
             ELSE [x \in 1..frames_to_extract |->
                        ((x - 1) * total) \div frames_to_extract]

\* The frame numbers of the first cnt indices: cap.read() succeeded cnt times.
ExtractedFrames(indices, cnt) == [x \in 1..cnt |-> indices[x] + 1]

InitFrames ==
    /\ max_frames \in MaxFramesOptions
    /\ total_frames \in 0..MaxTotalFrames
    /\ target_frames = None
    /\ frames = << >>
    /\ pc = "frames_start"
    /\ ref_hashes = << >>
    /\ ev_hashes = << >>
    /\ dp = << >>
    /\ i = 0
    /\ j = 0
    /\ alignment = << >>
    /\ edit_distance = -1
    /\ stats = << >>
    /\ hash1 = << >>
    /\ hash2 = << >>
    /\ hamming_result = None
    /\ ScoreIdle
    /\ SwapIdle

\* analyze: determine the frame sampling strategy.
DetermineSampling ==
    /\ pc = "frames_start"
    /\ target_frames' = TargetFrames(max_frames)
    /\ pc' = "sampling"
    /\ UNCHANGED << ref_hashes, ev_hashes, dp, i, j, alignment, edit_distance,
                    stats, hash1, hash2, hamming_result, scoreVars, swapVars,
                    max_frames, total_frames, frames >>

\* extract_frames: the loop stops at the first frame that cannot be read.
ExtractFrames ==
    /\ pc = "sampling"
    /\ \E cnt \in 0..Len(FrameIndices(target_frames, total_frames)) :
            frames' = ExtractedFrames(FrameIndices(target_frames, total_frames), cnt)
    /\ pc' = "extracted"
    /\ UNCHANGED << ref_hashes, ev_hashes, dp, i, j, alignment, edit_distance,
                    stats, hash1, hash2, hamming_result, scoreVars, swapVars,
                    max_frames, total_frames, target_frames >>

NextFrames == DetermineSampling \/ ExtractFrames

SpecFrames == InitFrames /\ [][NextFrames]_vars

(***************************************************************************)
(* Properties of align_sequences and analyze_differences (under Spec).     *)
(***************************************************************************)
Returned == pc \in { "aligned", "analyzed" }

CountType(al, ty) == Cardinality({ k \in 1..Len(al) : al[k].type = ty })

HasRefSide(op) == op.ref_frame # None /\ op.ref_hash # None
HasEvSide(op) == op.ev_frame # None /\ op.ev_hash # None

\* The reference-side and evidence-side elements an alignment replays.
RefReplay(al) ==
    LET ops == SelectSeq(al, HasRefSide)
    IN  [k \in 1..Len(ops) |->
            [frame_number |-> ops[k].ref_frame[1], hash |-> ops[k].ref_hash[1]]]

EvReplay(al) ==
    LET ops == SelectSeq(al, HasEvSide)
    IN  [k \in 1..Len(ops) |->
            [frame_number |-> ops[k].ev_frame[1], hash |-> ops[k].ev_hash[1]]]

\* C1: the edit distance align_sequences returns is the number of
\* substitutions, insertions and deletions of the alignment it returns.
C1_EditDistanceCountsOperations ==
    Returned =>
        edit_distance = CountType(alignment, "substitution")
                         + CountType(alignment, "insertion")
                         + CountType(alignment, "deletion")

C1_Witness ==
    /\ Returned
    /\ CountType(alignment, "match") >= 1
    /\ CountType(alignment, "substitution") >= 1
    /\ CountType(alignment, "deletion") >= 1

\* C2: replayed in order, the present reference sides of the returned
\* alignment (all operations but insertions) are the elements of the reference
\* sequence, each once and in order, and the present evidence sides (all but
\* deletions) are the elements of the evidence sequence.
C2_ReplayReproducesInputs ==
    Returned =>
        /\ \A k \in 1..Len(alignment) :
            /\ HasRefSide(alignment[k]) <=> alignment[k].type # "insertion"
            /\ HasEvSide(alignment[k]) <=> alignment[k].type # "deletion"
        /\ RefReplay(alignment) = ref_hashes
        /\ EvReplay(alignment) = ev_hashes

C2_Witness ==
    /\ Returned
    /\ CountType(alignment, "insertion") >= 1
    /\ CountType(alignment, "substitution") >= 1
    /\ Len(ref_hashes) >= 2
    /\ ref_hashes[2].frame_number # 2
    /\ ev_hashes[2].frame_number # 2

\* The costs of all edit scripts that turn the first r reference tokens into
\* the first c evidence tokens: a script ends with a deletion, an insertion,
\* or a diagonal step that is free on equal tokens and costs 1 otherwise.
RECURSIVE ScriptCosts(_, _)
ScriptCosts(r, c) ==
    IF r = 0 /\ c = 0 THEN { 0 }
    ELSE (IF r > 0 THEN { x + 1 : x \in ScriptCosts(r - 1, c) } ELSE { })
         \cup
         (IF c > 0 THEN { x + 1 : x \in ScriptCosts(r, c - 1) } ELSE { })
         \cup
         (IF r > 0 /\ c > 0
          THEN { x + (IF ref_seq[r] = ev_seq[c] THEN 0 ELSE 1) :
                    x \in ScriptCosts(r - 1, c - 1) }
          ELSE { })

\* An alignment is an edit script from the reference to the evidence tokens:
\* its sides replay both sequences, a match pairs equal tokens.
IsEditScript(al) ==
    /\ RefReplay(al) = ref_hashes
    /\ EvReplay(al) = ev_hashes
    /\ \A k \in 1..Len(al) :
        /\ al[k].type \in { "match", "substitution", "insertion", "deletion" }
        /\ al[k].type = "match" => al[k].ref_hash = al[k].ev_hash
        /\ al[k].type \in { "match", "substitution" } =>
                HasRefSide(al[k]) /\ HasEvSide(al[k])
        /\ al[k].type = "deletion" => HasRefSide(al[k]) /\ ~HasEvSide(al[k])
        /\ al[k].type = "insertion" => ~HasRefSide(al[k]) /\ HasEvSide(al[k])

ScriptCost(al) == Len(al) - CountType(al, "match")

\* C3: the returned edit distance is the least cost of any edit script from
\* the reference tokens to the evidence tokens, and the returned alignment is
\* an edit script of that cost.
C3_EditDistanceIsMinimum ==
    pc = "aligned" =>
        LET costs == ScriptCosts(m, n)
        IN  /\ \A x \in costs : edit_distance <= x
            /\ edit_distance \in costs
            /\ IsEditScript(alignment)
            /\ ScriptCost(alignment) = edit_distance

C3_Witness ==
    /\ pc = "aligned"
    /\ m = MaxLen
    /\ n = MaxLen
    /\ edit_distance = 2
    /\ \E x \in ScriptCosts(m, n) : x > edit_distance

\* The operation of the given type on reference element r and evidence
\* element c, 0 standing for the absent side.
Op(ty, r, c) ==
    [type |-> ty,
     ref_frame |-> IF r = 0 THEN None ELSE Some(ref_hashes[r].frame_number),
     ev_frame |-> IF c = 0 THEN None ELSE Some(ev_hashes[c].frame_number),
     ref_hash |-> IF r = 0 THEN None ELSE Some(ref_hashes[r].hash),
     ev_hash |-> IF c = 0 THEN None ELSE Some(ev_hashes[c].hash)]

Types(al) == [k \in 1..Len(al) |-> al[k].type]

Distinct(s) == \A a, b \in 1..Len(s) : a # b => s[a] # s[b]

RemoveAt(s, k) == [x \in 1..(Len(s) - 1) |-> IF x < k THEN s[x] ELSE s[x + 1]]

InsertAt(s, k, v) ==
    [x \in 1..(Len(s) + 1) |->
        IF x < k THEN s[x] ELSE IF x = k THEN v ELSE s[x - 1]]

\* The evidence sequence is numbered 1..|B|.
EvRenumbered == \A k \in 1..n : ev_hashes[k].frame_number = k

\* C4: when the reference hashes are pairwise distinct and the evidence
\* sequence (numbered 1..|B|) is the reference sequence without its k-th
\* element, the edit distance is 1 and the alignment is matches around one
\* deletion at position k carrying the k-th reference frame number; the
\* statistics count |A| - 1 matches and one deletion.
C4_SingleRemovalIsOneDeletion ==
    (pc = "analyzed" /\ Distinct(ref_seq) /\ EvRenumbered) =>
        \A k \in 1..m :
            ev_seq = RemoveAt(ref_seq, k) =>
                /\ edit_distance = 1
                /\ alignment =
                    [x \in 1..m |->
                        IF x < k THEN Op("match", x, x)
                        ELSE IF x = k THEN Op("deletion", k, 0)
                        ELSE Op("match", x, x - 1)]
                /\ alignment[k].ref_frame = Some(ref_hashes[k].frame_number)
                /\ stats = [matches |-> m - 1, deletions |-> 1,
                            substitutions |-> 0, insertions |-> 0,
                            total_operations |-> m]

\* The scenario A = [h1, h2, h3] at frames 1, 2, 3 and B = [h1, h3].
C4_Witness ==
    /\ pc = "analyzed"
    /\ m = 3
    /\ Distinct(ref_seq)
    /\ \A k \in 1..m : ref_hashes[k].frame_number = k
    /\ EvRenumbered
    /\ ev_seq = << ref_seq[1], ref_seq[3] >>
    /\ alignment = << Op("match", 1, 1), Op("deletion", 2, 0), Op("match", 3, 2) >>
    /\ edit_distance = 1
    /\ stats.matches = 2
    /\ stats.deletions = 1

\* C5: when the reference hashes are pairwise distinct and the evidence
\* sequence is the reference sequence with one hash that is not in it
\* inserted at position k, the edit distance is 1 and the alignment is
\* matches around one insertion at position k carrying the k-th evidence
\* frame number.
C5_SingleInsertionIsOneInsertion ==
    (Returned /\ Distinct(ref_seq)) =>
        \A k \in 1..(m + 1) :
            (/\ n = m + 1
             /\ \A x \in 1..m : ev_seq[k] # ref_seq[x]
             /\ ev_seq = InsertAt(ref_seq, k, ev_seq[k])) =>
                /\ edit_distance = 1
                /\ alignment =
                    [x \in 1..(m + 1) |->
                        IF x < k THEN Op("match", x, x)
                        ELSE IF x = k THEN Op("insertion", 0, k)
                        ELSE Op("match", x - 1, x)]
                /\ alignment[k].ev_frame = Some(ev_hashes[k].frame_number)

\* The scenario A = [h1, h2] and B = [h1, hX, h2].
C5_Witness ==
    /\ Returned
    /\ m = 2
    /\ n = 3
    /\ Distinct(ev_seq)
    /\ ref_seq = << ev_seq[1], ev_seq[3] >>
    /\ Types(alignment) = << "match", "insertion", "match" >>
    /\ edit_distance = 1

\* C6: a sequence aligned with itself gives edit distance 0 and |A| matches,
\* the k-th pairing element k with element k (checked for every evidence
\* sequence with the same hashes as the reference sequence).
C6_SelfAlignmentIsAllMatches ==
    (Returned /\ ref_seq = ev_seq) =>
        /\ edit_distance = 0
        /\ alignment = [k \in 1..m |-> Op("match", k, k)]

C6_Witness ==
    /\ Returned
    /\ ref_hashes = ev_hashes
    /\ m = 3
    /\ ref_seq[1] = ref_seq[3]
    /\ ref_seq[1] # ref_seq[2]
    /\ Types(alignment) = << "match", "match", "match" >>

\* C7: against an empty evidence sequence the result is |A| deletions in
\* order and edit distance |A|; from an empty reference sequence it is |B|
\* insertions in order and edit distance |B|; for two empty sequences an empty
\* alignment and 0.  The call always has a next step until it returns.
C7_EmptyInputs ==
    /\ (Returned /\ n = 0) =>
            /\ edit_distance = m
            /\ alignment = [k \in 1..m |-> Op("deletion", k, 0)]
    /\ (Returned /\ m = 0) =>
            /\ edit_distance = n
            /\ alignment = [k \in 1..n |-> Op("insertion", 0, k)]
    /\ (Returned /\ m = 0 /\ n = 0) =>
            /\ edit_distance = 0
            /\ alignment = << >>
    /\ (pc \in { "start", "backtrack" } /\ (m = 0 \/ n = 0)) => ENABLED Next

C7_Witness ==
    /\ Returned
    /\ m = MaxLen
    /\ n = 0
    /\ Types(alignment) = [k \in 1..m |-> "deletion"]
    /\ ref_hashes[2].frame_number = 3

\* The operation types the claimed rule emits from cell (r, c) back to (0, 0),
\* in the order they are emitted.
RECURSIVE TieBreakPath(_, _)
TieBreakPath(r, c) ==
    IF r = 0 /\ c = 0 THEN << >>
    ELSE IF r > 0 /\ c > 0 /\ ref_hashes[r].hash = ev_hashes[c].hash
        THEN << Op("match", r, c) >> \o TieBreakPath(r - 1, c - 1)
    ELSE IF r > 0 /\ c > 0 /\ dp[r][c] = dp[r - 1][c - 1] + 1
        THEN << Op("substitution", r, c) >> \o TieBreakPath(r - 1, c - 1)
    ELSE IF r > 0 /\ dp[r][c] = dp[r - 1][c] + 1
        THEN << Op("deletion", r, 0) >> \o TieBreakPath(r - 1, c)
    ELSE << Op("insertion", 0, c) >> \o TieBreakPath(r, c - 1)

\* C8: the returned alignment is the one the stated tie-break order selects
\* from cell (|A|, |B|): match, else substitution, else deletion, else
\* insertion; [a, b] against [b, a] gives two substitutions.
C8_TieBreakOrder ==
    Returned =>
        /\ alignment = Reverse(TieBreakPath(m, n))
        /\ (/\ m = 2
            /\ n = 2
            /\ ref_seq[1] # ref_seq[2]
            /\ ev_seq = << ref_seq[2], ref_seq[1] >>) =>
                Types(alignment) = << "substitution", "substitution" >>

\* [a, b] against [b, a]: deletion, match, insertion costs 2 as well.
C8_Witness ==
    /\ Returned
    /\ m = 2
    /\ n = 2
    /\ ref_seq[1] # ref_seq[2]
    /\ ev_seq = << ref_seq[2], ref_seq[1] >>
    /\ edit_distance = 2
    /\ Types(alignment) = << "substitution", "substitution" >>

\* C9: each counter of analyze_differences is the number of operations of
\* its type, and the four counters add up to total_operations, the length of
\* the alignment.
C9_StatisticsCountOperations ==
    pc = "analyzed" =>
        /\ stats.matches = CountType(alignment, "match")
        /\ stats.substitutions = CountType(alignment, "substitution")
        /\ stats.insertions = CountType(alignment, "insertion")
        /\ stats.deletions = CountType(alignment, "deletion")
        /\ stats.total_operations = Len(alignment)
        /\ stats.matches + stats.substitutions + stats.insertions
                + stats.deletions = stats.total_operations

C9_Witness ==
    /\ pc = "analyzed"
    /\ stats.matches >= 1
    /\ stats.insertions >= 1
    /\ stats.deletions >= 1
    /\ stats.total_operations = 4

(***************************************************************************)
(* Properties of calculate_hamming_distance (under SpecHamming).           *)
(***************************************************************************)
\* C10: whenever calculate_hamming_distance returns a result, its
\* hamming_distance is 0 exactly when the two hashes are equal as strings
\* (the equality align_sequences uses), and then the similarity is 100.
C10_ZeroDistanceIffEqualTokens ==
    (pc = "hamming_done" /\ hamming_result # None) =>
        /\ hamming_result[1].hamming_distance = 0 <=> hash1 = hash2
        /\ hash1 = hash2 =>
            hamming_result[1].similarity_percentage.num
                = 100 * hamming_result[1].similarity_percentage.den

\* C11: calculate_hamming_distance is symmetric: the call on (hash1, hash2)
\* and the call on (hash2, hash1) are both None, or both a result with the
\* same hamming_distance, max_bits and similarity_percentage.
C11_HammingDistanceIsSymmetric ==
    pc = "hamming_done" =>
        LET swapped == calculate_hamming_distance(hash2, hash1)
        IN  /\ hamming_result = None <=> swapped = None
            /\ hamming_result # None =>
                /\ hamming_result[1].hamming_distance = swapped[1].hamming_distance
                /\ hamming_result[1].max_bits = swapped[1].max_bits
                /\ hamming_result[1].similarity_percentage
                        = swapped[1].similarity_percentage

C11_Witness ==
    /\ pc = "hamming_done"
    /\ hash1 # hash2
    /\ hamming_result # None
    /\ hamming_result[1].hamming_distance = 3
    /\ ParseHex(hash1)[1] < 0

NumHexDigits(h) ==
    Cardinality({ k \in 1..Len(h) : h[k] \in DOMAIN HexDigitValue })

RECURSIVE Pow2(_)
Pow2(k) == IF k = 0 THEN 1 ELSE 2 * Pow2(k - 1)

\* Bit k of x taken as an unsigned integer of any width (two's complement).
BitOf(x, k) == (x \div Pow2(k)) % 2

\* popcount(a XOR b) on unsigned integers of w bits.
DifferingBits(a, b, w) ==
    Cardinality({ k \in 0..(w - 1) : BitOf(a, k) # BitOf(b, k) })

\* C12: for two accepted hashes of equal width, max_bits is 4 times the
\* number of hexadecimal digits of the hash, hamming_distance is
\* popcount(a XOR b) and lies in 0..max_bits, and similarity_percentage is
\* 100 * (max_bits - hamming_distance) / max_bits, hence in [0, 100].
C12_BitWidthDistanceAndSimilarity ==
    (pc = "hamming_done" /\ hamming_result # None) =>
        LET res == hamming_result[1]
            w == 4 * NumHexDigits(hash1)
            d == DifferingBits(ParseHex(hash1)[1], ParseHex(hash2)[1], w)
        IN  /\ res.max_bits = w
            /\ res.hamming_distance = d
            /\ 0 <= res.hamming_distance
            /\ res.hamming_distance <= res.max_bits
            /\ res.similarity_percentage.num * w
                    = 100 * (w - d) * res.similarity_percentage.den
            /\ 0 <= res.similarity_percentage.num
            /\ res.similarity_percentage.num <= 100 * res.similarity_percentage.den

Incompatible(h1, h2) == h1 = << >> \/ h2 = << >> \/ Len(h1) # Len(h2)

Unparsable(h1, h2) ==
    /\ ~Incompatible(h1, h2)
    /\ ParseHex(h1) = None \/ ParseHex(h2) = None

\* C13 as stated: an empty hash or two hashes of different width give an
\* error value that differs from the one given for a hash that is not a
\* hexadecimal number.
C13_IncompatibleDistinctFromInvalid ==
    (pc = "hamming_done" /\ Incompatible(hash1, hash2)) =>
        /\ hamming_result = None
        /\ \A h \in SeqsUpTo(HashChars, MaxHashLen) :
            Unparsable(h, h) => calculate_hamming_distance(h, h) # hamming_result

\* C13, amended: an empty hash or two hashes of different width give the
\* value None, a hash that is not a hexadecimal number gives the same None
\* (the ValueError of int is caught), and None is given in no other case.
C13_ErrorsAreReturnedAsNone ==
    /\ (pc = "hamming_done" /\ Incompatible(hash1, hash2)) => hamming_result = None
    /\ (pc = "hamming_done" /\ Unparsable(hash1, hash2)) => hamming_result = None
    /\ (pc = "hamming_done" /\ hamming_result = None) =>
            Incompatible(hash1, hash2) \/ Unparsable(hash1, hash2)

C13_Witness ==
    /\ pc = "hamming_done"
    /\ hash1 # << >>
    /\ hash2 # << >>
    /\ Len(hash1) # Len(hash2)
    /\ ParseHex(hash1) # None
    /\ ParseHex(hash2) # None
    /\ hamming_result = None

(***************************************************************************)
(* Properties of the similarity scoring of analyze (under SpecScore).      *)
(***************************************************************************)
RejectedSubstitution(op) ==
    /\ op.type = "substitution"
    /\ calculate_hamming_distance(op.ref_hash[1], op.ev_hash[1]) = None

\* The scores of the operations that have one: match 100, insertion and
\* deletion 0, substitution the similarity of its two hashes.
RECURSIVE DefinedScores(_)
DefinedScores(al) ==
    IF al = << >> THEN << >>
    ELSE LET op == Head(al)
         IN  (IF RejectedSubstitution(op) THEN << >>
              ELSE IF op.type = "match" THEN << Frac(100) >>
              ELSE IF op.type = "substitution"
              THEN << calculate_hamming_distance(op.ref_hash[1], op.ev_hash[1])[1]
                        .similarity_percentage >>
              ELSE << Frac(0) >>)
             \o DefinedScores(Tail(al))

SameFrac(a, b) == a.num * b.den = b.num * a.den

\* C14: a substitution whose hashes the distance function rejects does not
\* abort the scoring, has no score, and counts in none of the aggregates:
\* mean, minimum, maximum and the three bucket counts are those of the
\* operations with a defined score.
C14_RejectedSubstitutionExcluded ==
    /\ pc = "analyzed" => ENABLED ScoreSimilarities
    /\ pc = "scored" =>
        LET defined == DefinedScores(alignment)
        IN  /\ Len(similarity_scores) = Len(defined)
            /\ SameFrac(avg_similarity, AvgScore(defined))
            /\ SameFrac(min_similarity, MinScore(defined))
            /\ SameFrac(max_similarity, MaxScore(defined))
            /\ high_similarity = HighCount(defined)
            /\ medium_similarity = MediumCount(defined)
            /\ low_similarity = LowCount(defined)
(***************************************************************************)
(* Further properties of align_sequences (under Spec).                     *)
(***************************************************************************)
\* C15: in the returned alignment a match has equal hashes, a substitution
\* has different hashes and both frame numbers, a deletion has no evidence
\* frame and hash but a reference side, an insertion has no reference frame
\* and hash but an evidence side.
C15_OperationShapes ==
    Returned =>
        \A k \in 1..Len(alignment) :
            LET op == alignment[k]
            IN  /\ op.type = "match" =>
                    /\ op.ref_hash # None
                    /\ op.ref_hash = op.ev_hash
                /\ op.type = "substitution" =>
                    /\ op.ref_hash # None
                    /\ op.ev_hash # None
                    /\ op.ref_hash # op.ev_hash
                    /\ op.ref_frame # None
                    /\ op.ev_frame # None
                /\ op.type = "deletion" =>
                    /\ op.ev_frame = None
                    /\ op.ev_hash = None
                    /\ op.ref_frame # None
                    /\ op.ref_hash # None
                /\ op.type = "insertion" =>
                    /\ op.ref_frame = None
                    /\ op.ref_hash = None
                    /\ op.ev_frame # None
                    /\ op.ev_hash # None

C15_Witness ==
    /\ Returned
    /\ n = 3
    /\ Types(alignment) = << "insertion", "substitution", "match" >>

\* One of the four conditions of the backtracking loop holds at (i, j).
SomeBranchApplies ==
    \/ i > 0 /\ j > 0 /\ ref_hashes[i].hash = ev_hashes[j].hash
    \/ i > 0 /\ j > 0 /\ dp[i][j] = dp[i - 1][j - 1] + 1
    \/ i > 0 /\ dp[i][j] = dp[i - 1][j] + 1
    \/ j > 0 /\ dp[i][j] = dp[i][j - 1] + 1

\* C16: the backtracking loop terminates: at every cell other than (0, 0) it
\* reaches a branch applies and the loop has a next step, every iteration
\* appends one operation and decreases i + j, the indices never go below 0,
\* and so at most |A| + |B| iterations lead to (0, 0).
C16_BacktrackingTerminates ==
    /\ [](pc = "backtrack" =>
            /\ 0 <= i /\ i <= m
            /\ 0 <= j /\ j <= n
            /\ Len(alignment) <= m + n
            /\ (i > 0 \/ j > 0) => SomeBranchApplies
            /\ ENABLED Next)
    /\ [][(pc = "backtrack" /\ pc' = "backtrack") =>
            /\ Len(alignment') = Len(alignment) + 1
            /\ i' + j' < i + j
            /\ i' >= 0
            /\ j' >= 0]_vars
    /\ [][(pc = "backtrack" /\ pc' = "aligned") => (i = 0 /\ j = 0)]_vars

C16_Witness ==
    /\ pc = "aligned"
    /\ m = MaxLen
    /\ n = MaxLen
    /\ Len(alignment) = MaxLen + 1

(***************************************************************************)
(* Properties of the frame sampling (under SpecFrames).                    *)
(***************************************************************************)
\* C17: when max_frames is given, the number of frames analysed from a video
\* never exceeds it, whatever its value and the frame count; all frames are
\* asked for only when max_frames is not given.
C17_FramesNeverExceedMaxFrames ==
    pc = "extracted" =>
        /\ max_frames # None => Len(frames) <= max_frames[1]
        /\ target_frames = None => max_frames = None

(***************************************************************************)
(* Properties of two calls with exchanged arguments (under SpecSwap).      *)
(***************************************************************************)
\* The operation types of an alignment read from the other side: what is
\* deleted from one sequence is inserted into the other.
Mirror(types) ==
    [k \in 1..Len(types) |->
        IF types[k] = "deletion" THEN "insertion"
        ELSE IF types[k] = "insertion" THEN "deletion" ELSE types[k]]

\* C18: align_sequences(A, B) and align_sequences(B, A) return the same
\* edit_distance, for all A and B.
C18_EditDistanceIsSymmetric ==
    (Returned /\ call = 2) => edit_distance = first_distance

\* Two different sequences whose two alignments are not mirror images.
C18_Witness ==
    /\ Returned
    /\ call = 2
    /\ edit_distance = first_distance
    /\ edit_distance > 0
    /\ Types(alignment) # Mirror(Types(first_alignment))

(***************************************************************************)
(* align_sequences against find_longest_common_subsequence (under Spec).   *)
(***************************************************************************)
\* C19: the number of match operations of the returned alignment never
\* exceeds the longest common subsequence of the two token sequences.
C19_MatchesAtMostLcs ==
    Returned =>
        CountType(alignment, "match")
            <= find_longest_common_subsequence(ref_seq, ev_seq)

\* An alignment with strictly fewer matches than the longest common
\* subsequence: the alignment minimises edits, not maximises matches.
C19_Witness ==
    /\ Returned
    /\ CountType(alignment, "match")
            < find_longest_common_subsequence(ref_seq, ev_seq)

====
